---- MODULE Spec2Model ----
(***************************************************************************)
(* A model of crowbar (src/src/main.rs, src/src/io.rs): the decoder of the *)
(* ODOL model container.                                                   *)
(*                                                                         *)
(*   SpecRCA   read_compressed_array: the stored block and the bisection   *)
(*             that recovers the length of an LZO block.                   *)
(*   SpecSect  the section list of a LOD and the assignment of texture     *)
(*             and material indices to its faces.                          *)
(*   SpecSel   the selections of a LOD and their expansion into tags.      *)
(*   SpecOdol  main and read_odol as a run of fallible steps.              *)
(*   SpecStr   read_cstring (io.rs): a zero-terminated string, byte by     *)
(*             byte.                                                       *)
(***************************************************************************)
EXTENDS Integers, Sequences, FiniteSets, TLC

VARIABLES
    pc,           \* where the modelled call stands
    result,       \* what the modelled call returned (or how it ended)
    file,         \* the bytes of the stream read_compressed_array reads
    pos,          \* the stream's position (bytes from the start of file)
    entry,        \* the stream's position when read_compressed_array is called
    output_size,  \* the argument output_size
    comp_type,    \* the marker byte read at main.rs:36 (-1: not read yet)
    valid,        \* the block is a valid LZO payload of length trueLen
    trueLen,      \* the payload's compressed length (0 when not valid)
    fp,           \* main.rs:46
    size_small,   \* main.rs:47
    size_large,   \* main.rs:48
    size,         \* the candidate of the latest attempt, main.rs:56
    attempts,     \* loop iterations that passed the guard of main.rs:52
    faces,        \* main.rs:437, the LOD's faces: vertices, texture and material index
    sections,     \* main.rs:452, the LOD's sections: <<face_from, face_to>>
    secTable,     \* the section entries read from the stream so far
    num_points,   \* main.rs:377, the LOD's declared point count
    selections,   \* main.rs:500, the LOD's selections as read
    selIdx,       \* selections the loop of main.rs:679 has expanded
    taggs,        \* lod.taggs, main.rs:715: selection name -> tag bytes
    arg_output,   \* main.rs:32, whether an output path was given
    num_lods,     \* main.rs:111
    lods,         \* main.rs:114, the LODs of the mesh under construction
    lod,          \* the index of the LOD the loop of main.rs:355 is at (-1: the header)
    num_uvs,      \* main.rs:586, the length of uvs
    trace,        \* the decode steps run so far, each with how it ended
    outFile,      \* the output file: "absent", "created" or "written"
    bytes         \* io.rs:10, the bytes read_cstring has accumulated

rcaVars == <<file, pos, entry, output_size, comp_type, valid, trueLen,
             fp, size_small, size_large, size, attempts>>
meshVars == <<faces, sections, secTable>>
selVars == <<num_points, selections, selIdx, taggs>>

odolVars == <<arg_output, num_lods, lods, lod, num_uvs, trace, outFile>>

strVars == <<bytes>>

vars == <<pc, result, rcaVars, meshVars, selVars, odolVars, strVars>>

----------------------------------------------------------------------------
(* Bounds of the model. *)

MaxOut == 9        \* output_size
MaxStored == 4     \* bytes after the marker of a stored block
MaxPayload == 8    \* bytes after the marker of an LZO block
MaxEntry == 1      \* bytes of the stream before the block

Byte == 0..1

RECURSIVE SeqsUpTo(_, _)
SeqsUpTo(S, n) ==
    IF n = 0 THEN {<<>>}
    ELSE LET shorter == SeqsUpTo(S, n - 1)
         IN  shorter \cup {Append(s, x) : s \in {t \in shorter : Len(t) = n - 1}, x \in S}

----------------------------------------------------------------------------
(* Results of a call. *)

NoResult == [kind |-> "None", err |-> "", src |-> "", raw |-> <<>>]
Err(e) == [kind |-> "Err", err |-> e, src |-> "", raw |-> <<>>]
Panic(e) == [kind |-> "Panic", err |-> e, src |-> "", raw |-> <<>>]
\* The bytes of a stored block; an LZO block's decoded bytes are minilzo's
\* and their content is not modelled.
OkStored(buffer) == [kind |-> "Ok", err |-> "", src |-> "stored", raw |-> buffer]
OkLzo == [kind |-> "Ok", err |-> "", src |-> "lzo", raw |-> <<>>]

----------------------------------------------------------------------------
(* The stream: Read::read_exact on a seekable reader. *)

\* read_exact(n) at position p succeeds iff n bytes are left.
ReadExactOk(p, n) == p + n <= Len(file)
ReadExactBytes(p, n) == IF ReadExactOk(p, n) THEN [i \in 1..n |-> file[p + i]] ELSE <<>>
\* A failed read_exact has consumed what was left.
ReadExactEnd(p, n) == IF ReadExactOk(p, n) THEN p + n ELSE Len(file)

----------------------------------------------------------------------------
(* read_compressed_array, main.rs:35-91 *)

\* main.rs:37-42, the stored block: the bytes returned and the position left.
StoredShort(p, n) == [raw |-> ReadExactBytes(p, n - 1), pos |-> ReadExactEnd(p, n - 1)]
StoredBlock(p, n) == [raw |-> ReadExactBytes(p, n), pos |-> ReadExactEnd(p, n)]

\* main.rs:56
MidLinear(lo, hi) == lo + 1
Mid(lo, hi) == lo + (hi - lo) \div 2

\* main.rs:63, reader.seek(SeekFrom::Start(fp)) with the stream at cur: where
\* the stream stands afterwards.
SeekKeep(target, cur) == cur
SeekStart(target, cur) == target

\* main.rs:52
GiveUpWide(lo, hi) == hi < lo \/ hi - lo <= 2
GiveUpLate(lo, hi) == hi < lo \/ hi - lo <= 0
GiveUp(lo, hi) == hi < lo \/ hi - lo <= 1

\* minilzo::decompress(&buffer, output_size) on the first n bytes of the block:
\* the outcomes it can report. A valid payload of length trueLen needs more
\* input below trueLen, leaves input unconsumed above it and decodes at it;
\* of any other block nothing is known.
LzoOutcomes(n) ==
    IF valid
    THEN IF n < trueLen THEN {"InputOverrun"}
         ELSE IF n > trueLen THEN {"InputNotConsumed"}
         ELSE {"Ok"}
    ELSE {"Ok", "InputOverrun", "InputNotConsumed", "Error"}

RcaVarsLoop == <<file, entry, output_size, comp_type, valid, trueLen, fp>>

\* main.rs:36, the marker cannot be read.
RcaMarkerEof ==
    /\ pc = "call"
    /\ ~ReadExactOk(pos, 1)
    /\ pc' = "done"
    /\ result' = Err("UnexpectedEof")
    /\ pos' = ReadExactEnd(pos, 1)
    /\ UNCHANGED <<file, entry, output_size, comp_type, valid, trueLen, fp,
                   size_small, size_large, size, attempts>>
    /\ UNCHANGED <<meshVars, selVars, odolVars, strVars>>

\* main.rs:36-42, marker 0: output_size raw bytes.
RcaStored ==
    /\ pc = "call"
    /\ ReadExactOk(pos, 1)
    /\ file[pos + 1] = 0
    /\ comp_type' = 0
    /\ pc' = "done"
    /\ LET b == StoredBlock(pos + 1, output_size)
       IN  /\ pos' = b.pos
           /\ result' = IF ReadExactOk(pos + 1, output_size)
                        THEN OkStored(b.raw)
                        ELSE Err("UnexpectedEof")
    /\ UNCHANGED <<file, entry, output_size, valid, trueLen, fp,
                   size_small, size_large, size, attempts>>
    /\ UNCHANGED <<meshVars, selVars, odolVars, strVars>>

\* main.rs:44, a marker that is neither 0 nor 2.
RcaBadMarker ==
    /\ pc = "call"
    /\ ReadExactOk(pos, 1)
    /\ file[pos + 1] \notin {0, 2}
    /\ comp_type' = file[pos + 1]
    /\ pos' = pos + 1
    /\ pc' = "done"
    /\ result' = Panic("assert_eq comp_type")
    /\ UNCHANGED <<file, entry, output_size, valid, trueLen, fp,
                   size_small, size_large, size, attempts>>
    /\ UNCHANGED <<meshVars, selVars, odolVars, strVars>>

\* main.rs:36, 44-48, marker 2: the bisection starts.
RcaCompressed ==
    /\ pc = "call"
    /\ ReadExactOk(pos, 1)
    /\ file[pos + 1] = 2
    /\ comp_type' = 2
    /\ pos' = pos + 1
    /\ fp' = pos + 1
    /\ size_small' = 0
    /\ size_large' = output_size
    /\ pc' = "loop"
    /\ UNCHANGED <<result, file, entry, output_size, valid, trueLen, size, attempts>>
    /\ UNCHANGED <<meshVars, selVars, odolVars, strVars>>

\* main.rs:52-54
RcaGiveUp ==
    /\ pc = "loop"
    /\ GiveUp(size_small, size_large)
    /\ pc' = "done"
    /\ result' = Err("Other")
    /\ UNCHANGED <<pos, size_small, size_large, size, attempts>>
    /\ UNCHANGED RcaVarsLoop
    /\ UNCHANGED <<meshVars, selVars, odolVars, strVars>>

\* main.rs:56-69, the candidate does not fit in what is left of the stream.
RcaAttemptEof ==
    /\ pc = "loop"
    /\ ~GiveUp(size_small, size_large)
    /\ LET mid == Mid(size_small, size_large)
           from == SeekStart(fp, pos)
       IN  /\ ~ReadExactOk(from, mid)
           /\ size' = mid
           /\ attempts' = attempts + 1
           /\ pos' = ReadExactEnd(from, mid)
           /\ size_large' = mid
    /\ UNCHANGED <<pc, result, size_small>>
    /\ UNCHANGED RcaVarsLoop
    /\ UNCHANGED <<meshVars, selVars, odolVars, strVars>>

\* main.rs:63-71, the device fails the seek or the read.
RcaAttemptIoError ==
    /\ pc = "loop"
    /\ ~GiveUp(size_small, size_large)
    /\ size' = Mid(size_small, size_large)
    /\ attempts' = attempts + 1
    /\ pc' = "done"
    /\ result' = Err("Io")
    /\ pos' \in {pos, SeekStart(fp, pos)}
    /\ UNCHANGED <<size_small, size_large>>
    /\ UNCHANGED RcaVarsLoop
    /\ UNCHANGED <<meshVars, selVars, odolVars, strVars>>

\* main.rs:56-89, the candidate is read and handed to the decoder.
RcaAttemptDecode ==
    /\ pc = "loop"
    /\ ~GiveUp(size_small, size_large)
    /\ LET mid == Mid(size_small, size_large)
           from == SeekStart(fp, pos)
       IN  /\ ReadExactOk(from, mid)
           /\ size' = mid
           /\ attempts' = attempts + 1
           /\ pos' = ReadExactEnd(from, mid)
           /\ \E o \in LzoOutcomes(mid) :
                \/ /\ o = "Ok"
                   /\ pc' = "done"
                   /\ result' = OkLzo
                   /\ UNCHANGED <<size_small, size_large>>
                \/ /\ o = "InputOverrun"
                   /\ size_small' = mid
                   /\ UNCHANGED <<pc, result, size_large>>
                \/ /\ o = "InputNotConsumed"
                   /\ size_large' = mid
                   /\ UNCHANGED <<pc, result, size_small>>
                \/ /\ o = "Error"
                   /\ pc' = "done"
                   /\ result' = Err("Other")
                   /\ UNCHANGED <<size_small, size_large>>
    /\ UNCHANGED RcaVarsLoop
    /\ UNCHANGED <<meshVars, selVars, odolVars, strVars>>

\* No read_cstring call is under way.
StrIdle == bytes = <<>>

\* No file is being decoded.
OdolIdle ==
    /\ arg_output = FALSE
    /\ num_lods = 0
    /\ lods = <<>>
    /\ lod = -1
    /\ num_uvs = 0
    /\ trace = <<>>
    /\ outFile = "absent"

\* No LOD is being decoded.
MeshIdle ==
    /\ faces = <<>>
    /\ sections = <<>>
    /\ secTable = <<>>
    /\ num_points = 0
    /\ selections = <<>>
    /\ selIdx = 0
    /\ taggs = <<>>

\* The shortest LZO1X stream that decodes to one byte or more: a run-length
\* byte, a literal and the three bytes of the end-of-stream marker.
LzoEndMarker == <<17, 0, 0>>
MinLzoLen == 2 + Len(LzoEndMarker)

\* The blocks of the model: nothing (the stream ends before the marker), a
\* marker alone or with bytes after it. The bytes of an LZO block are read by
\* minilzo alone (LzoOutcomes), so only their number is modelled.
Blocks ==
    {<<>>}
    \cup {<<0>> \o p : p \in SeqsUpTo(Byte, MaxStored)}
    \cup {<<m>> \o [i \in 1..n |-> 1] : m \in {1, 2}, n \in 0..MaxPayload}

\* The stream holds MaxEntry or fewer bytes before the block. A valid payload
\* lies whole in the stream and decodes to output_size >= 1 bytes.
InitRCA ==
    /\ pc = "call"
    /\ result = NoResult
    /\ entry \in 0..MaxEntry
    /\ pos = entry
    /\ \E b \in Blocks : file = [i \in 1..entry |-> 1] \o b
    /\ output_size \in 0..MaxOut
    /\ comp_type = -1
    /\ valid \in BOOLEAN
    /\ IF valid
       THEN /\ Len(file) > entry
            /\ file[entry + 1] = 2
            /\ output_size >= 1
            /\ trueLen \in MinLzoLen..(Len(file) - entry - 1)
       ELSE trueLen = 0
    /\ fp = 0
    /\ size_small = 0
    /\ size_large = 0
    /\ size = 0
    /\ attempts = 0
    /\ MeshIdle
    /\ OdolIdle
    /\ StrIdle

NextRCA ==
    \/ RcaMarkerEof
    \/ RcaStored
    \/ RcaBadMarker
    \/ RcaCompressed
    \/ RcaGiveUp
    \/ RcaAttemptEof
    \/ RcaAttemptIoError
    \/ RcaAttemptDecode

SpecRCA == InitRCA /\ [][NextRCA]_vars

\* The call runs on: a step that can be taken is taken.
FairSpecRCA == InitRCA /\ [][NextRCA]_vars /\ WF_vars(NextRCA)

----------------------------------------------------------------------------
(* Claims about read_compressed_array, checked under SpecRCA. *)

\* The least k with 2^k >= n: ceil(log2(n)) for n >= 1, and 0 for n = 0.
RECURSIVE Pow2(_)
Pow2(k) == IF k = 0 THEN 1 ELSE 2 * Pow2(k - 1)
RECURSIVE CeilLog2From(_, _)
CeilLog2From(n, k) == IF Pow2(k) >= n THEN k ELSE CeilLog2From(n, k + 1)
CeilLog2(n) == CeilLog2From(n, 0)

\* C1 (as claimed): a marker-2 block holding a valid payload of length
\* trueLen, whatever output_size is declared, is recovered: unless the device
\* fails, the call ends in success on the attempt whose candidate is trueLen.
C1_BisectionRecoversAnyValidPayload ==
    (pc = "done" /\ comp_type = 2 /\ valid /\ result.err # "Io")
        => (result.kind = "Ok" /\ size = trueLen)

\* C2: whatever the attempts report, read_compressed_array makes at most
\* ceil(log2(output_size)) read-and-decode attempts.
C2_AttemptsAtMostCeilLog2 == attempts <= CeilLog2(output_size)

\* C2's case: a bisection that returned after the full ceil(log2(output_size))
\* attempts, three of them or more.
C2_Witness ==
    /\ pc = "done"
    /\ comp_type = 2
    /\ attempts >= 3
    /\ attempts = CeilLog2(output_size)

\* C3: a marker-0 block of output_size bytes is returned verbatim, without an
\* attempt of the bisection, and the stream is left output_size bytes past the
\* block's start (the byte after the marker).
C3_StoredBlockVerbatim ==
    (pc = "done" /\ comp_type = 0 /\ entry + 1 + output_size <= Len(file))
        => /\ result = OkStored([i \in 1..output_size |-> file[entry + 1 + i]])
           /\ attempts = 0
           /\ size_large = 0
           /\ pos = entry + 1 + output_size

\* C3's case: a stored block of two bytes or more, not at the stream's start,
\* has been read.
C3_Witness ==
    /\ pc = "done"
    /\ comp_type = 0
    /\ entry > 0
    /\ output_size >= 2
    /\ result.kind = "Ok"
    /\ \E i, j \in 1..Len(result.raw) : result.raw[i] # result.raw[j]

\* C12: every attempt of the bisection reads its candidate from the block's
\* start, the position after the marker byte: unless the device fails, it
\* leaves the stream `size` bytes past the block's start (at the stream's end
\* when the candidate does not fit), wherever earlier attempts left it, and an
\* attempt that succeeds returns with the stream at block start + size.
C12_AttemptsReadFromBlockStart ==
    [][attempts' = attempts + 1
          => /\ fp = entry + 1
             /\ result'.err # "Io"
                   => pos' = IF entry + 1 + size' <= Len(file)
                             THEN entry + 1 + size'
                             ELSE Len(file)
             /\ result'.kind = "Ok"
                   => pc' = "done" /\ pos' = entry + 1 + size']_vars

\* C12's case: a block not at the stream's start was recovered on the third
\* attempt or later, with a candidate shorter than the first attempt's.
C12_Witness ==
    /\ pc = "done"
    /\ comp_type = 2
    /\ result.kind = "Ok"
    /\ entry > 0
    /\ attempts >= 3
    /\ size < output_size \div 2
    /\ pos = entry + 1 + size

\* C13: a valid payload whose length is output_size - 1 is recovered (unless
\* the device fails): the candidate output_size - 1 is attempted, the guard
\* of main.rs:52 not ending the loop before.
C13_LengthBelowOutputSizeRecovered ==
    (pc = "done" /\ comp_type = 2 /\ valid /\ output_size >= 2
       /\ trueLen = output_size - 1 /\ result.err # "Io")
        => /\ result.kind = "Ok"
           /\ size = output_size - 1

\* C13's case: such a payload was recovered after two attempts or more.
C13_Witness ==
    /\ pc = "done"
    /\ valid
    /\ trueLen = output_size - 1
    /\ result.kind = "Ok"
    /\ size = output_size - 1
    /\ attempts >= 2

\* C16: every attempt's candidate lies strictly between size_small and
\* size_large, themselves within 0..output_size, and an attempt after which
\* the loop goes on has narrowed size_large - size_small; so candidates 0 and
\* output_size or more are never attempted, a marker-2 call with output_size
\* of 0 or 1 fails without an attempt, and every call ends, in a result or in
\* an error.
C16_BisectionNarrowsAndEnds ==
    /\ [][attempts' = attempts + 1
             => /\ 0 <= size_small
                /\ size_small < size'
                /\ size' < size_large
                /\ size_large <= output_size
                /\ pc' = "loop"
                      => size_large' - size_small' < size_large - size_small]_vars
    /\ [](attempts > 0 => (0 < size /\ size < output_size))
    /\ []((pc = "done" /\ comp_type = 2 /\ output_size <= 1)
             => (attempts = 0 /\ result.kind = "Err"))
    /\ <>(pc = "done" /\ result.kind # "None")

\* C16's case: after three attempts or more that each narrowed the interval,
\* the guard of main.rs:52 ended the call in an error.
C16_Witness ==
    /\ pc = "done"
    /\ comp_type = 2
    /\ attempts >= 3
    /\ result = Err("Other")
    /\ size_large - size_small <= 1
    /\ size_small > 0
    /\ size_large < output_size

----------------------------------------------------------------------------
(* The section list of a LOD, main.rs:450-495: each section read from the   *)
(* stream is at once assigned to the faces its range covers.                *)

MaxFaces == 2       \* faces of a LOD
MaxArity == 2       \* vertices of a face
MaxSections == 2    \* sections of a LOD
MaxFaceTo == 5      \* face_from and face_to of a section

\* main.rs:445, the texture and material index of a face no section covers.
Unresolved == 16777215

\* main.rs:445, a face as decoded, no section assigned yet.
NewFace(verts) == [verts |-> verts, tex |-> Unresolved, mat |-> Unresolved]

\* main.rs:493, what a face adds to the counter the section ranges are
\* compared with.
StridePlain(face) == 1
Stride(face) == Len(face.verts) * 4 + 1

\* main.rs:482-494, the loop over the faces from face i on, the counter
\* standing at face_index. material_index is kept as the i32 read: the usize
\* it is cast to resolves to no material when it is -1.
RECURSIVE AssignSection(_, _, _, _)
AssignSection(fs, i, face_index, sec) ==
    IF i > Len(fs) \/ face_index > sec.to
    THEN fs
    ELSE AssignSection(
             IF face_index >= sec.from
             THEN [fs EXCEPT ![i].tex = sec.tex, ![i].mat = sec.mat]
             ELSE fs,
             i + 1, face_index + Stride(fs[i]), sec)

\* The texture and material index a section entry carries.
SectionKinds == {<<5, -1>>, <<7, 3>>}

SectionEntries ==
    {[from |-> f, to |-> t, tex |-> k[1], mat |-> k[2]] :
        f \in 0..MaxFaceTo, t \in 0..MaxFaceTo, k \in SectionKinds}

\* main.rs:453-495, one section: read, recorded, assigned.
SectReadSection ==
    /\ pc = "sections"
    /\ Len(sections) < MaxSections
    /\ \E sec \in SectionEntries :
          /\ sections' = Append(sections, <<sec.from, sec.to>>)
          /\ secTable' = Append(secTable, sec)
          /\ faces' = AssignSection(faces, 1, 0, sec)
    /\ UNCHANGED <<pc, result>>
    /\ UNCHANGED <<rcaVars, selVars, odolVars, strVars>>

\* The faces of the spec's fixture: vertex counts 4, 4, 3, 3, 3.
FixtureArities == <<4, 4, 3, 3, 3>>

\* Face lists by their vertex counts (the assignment reads nothing else of a
\* face): every list within the bounds, and the fixture's.
FaceArities == SeqsUpTo(0..MaxArity, MaxFaces) \cup {FixtureArities}

\* No read_compressed_array call is under way.
RcaIdle ==
    /\ file = <<>>
    /\ pos = 0
    /\ entry = 0
    /\ output_size = 0
    /\ comp_type = -1
    /\ valid = FALSE
    /\ trueLen = 0
    /\ fp = 0
    /\ size_small = 0
    /\ size_large = 0
    /\ size = 0
    /\ attempts = 0

\* No selection is read yet.
SelIdle ==
    /\ num_points = 0
    /\ selections = <<>>
    /\ selIdx = 0
    /\ taggs = <<>>

\* The faces are decoded (main.rs:434-446), the section list is next.
InitSect ==
    /\ pc = "sections"
    /\ result = NoResult
    /\ \E ar \in FaceArities :
          faces = [i \in 1..Len(ar) |-> NewFace([j \in 1..ar[i] |-> 0])]
    /\ sections = <<>>
    /\ secTable = <<>>
    /\ SelIdle
    /\ RcaIdle
    /\ OdolIdle
    /\ StrIdle

NextSect == SectReadSection

SpecSect == InitSect /\ [][NextSect]_vars

----------------------------------------------------------------------------
(* Claims about the section assignment, checked under SpecSect. *)

\* The cumulative stride counter at face i: vertexCount*4 + 1 for each face
\* before it.
RECURSIVE StrideOffset(_, _)
StrideOffset(fs, i) ==
    IF i <= 1 THEN 0 ELSE StrideOffset(fs, i - 1) + (Len(fs[i - 1].verts) * 4 + 1)

\* The section entries whose range holds counter value c, by their place in
\* the section list.
Covering(c) == {k \in 1..Len(secTable) : secTable[k].from <= c /\ c <= secTable[k].to}

Max(S) == CHOOSE x \in S : \A y \in S : y <= x

\* What a plain per-face counter 0, 1, 2, ... would give face i.
PlainCovering(i) == Covering(i - 1)

\* C4: a face's texture and material index are those of the (last read)
\* section whose range holds the face's cumulative stride offset, the face's
\* ordinal playing no part; a face whose offset no section's range holds keeps
\* the unresolved indices. For the fixture (sections (0,2,tex 5), (2,5,tex 7),
\* vertex counts 4,4,3,3,3) the offsets are 0,17,34,47,60 and the textures are
\* 5 for the first face and unresolved for the rest, not the 5,5,7,7,7 of a
\* per-face counter.
C4_SectionsFollowStrideCounter ==
    /\ \A i \in 1..Len(faces) :
          LET cov == Covering(StrideOffset(faces, i))
          IN  IF cov = {}
              THEN faces[i].tex = Unresolved /\ faces[i].mat = Unresolved
              ELSE /\ faces[i].tex = secTable[Max(cov)].tex
                   /\ faces[i].mat = secTable[Max(cov)].mat
    /\ ( /\ [i \in 1..Len(faces) |-> Len(faces[i].verts)] = FixtureArities
         /\ [k \in 1..Len(secTable) |-> <<secTable[k].from, secTable[k].to, secTable[k].tex>>]
                = << <<0, 2, 5>>, <<2, 5, 7>> >> )
       => /\ [i \in 1..5 |-> StrideOffset(faces, i)] = <<0, 17, 34, 47, 60>>
          /\ [i \in 1..5 |-> faces[i].tex]
                = <<5, Unresolved, Unresolved, Unresolved, Unresolved>>
          /\ \E i \in 1..5 : PlainCovering(i) # {}
                               /\ faces[i].tex # secTable[Max(PlainCovering(i))].tex

\* C4's case: the fixture's two sections have been read over its five faces.
C4_Witness ==
    /\ [i \in 1..Len(faces) |-> Len(faces[i].verts)] = FixtureArities
    /\ [k \in 1..Len(secTable) |-> <<secTable[k].from, secTable[k].to, secTable[k].tex>>]
           = << <<0, 2, 5>>, <<2, 5, 7>> >>
    /\ faces[1].tex = 5

\* The section entries whose half-open range [from, to) holds counter value c.
HalfOpenCovering(c) ==
    {k \in 1..Len(secTable) : secTable[k].from <= c /\ c < secTable[k].to}

\* C14 (as claimed): a section assigns its indices only to the faces whose
\* counter c satisfies from <= c < to: a face has the indices of the last
\* section whose half-open range holds its counter, and a face whose counter
\* no such range holds (it may equal a section's to) keeps the unresolved
\* indices.
C14_SectionRangeHalfOpen ==
    \A i \in 1..Len(faces) :
        LET cov == HalfOpenCovering(StrideOffset(faces, i))
        IN  IF cov = {}
            THEN faces[i].tex = Unresolved /\ faces[i].mat = Unresolved
            ELSE /\ faces[i].tex = secTable[Max(cov)].tex
                 /\ faces[i].mat = secTable[Max(cov)].mat

----------------------------------------------------------------------------
(* The selections of a LOD: read at main.rs:498-548, expanded into tag      *)
(* bytes at main.rs:679-716.                                                *)

MaxPoints == 2       \* points of a LOD
MaxSelections == 1   \* selections of a LOD
MaxListed == 1       \* entries of a selection's face, section and vertex array

\* Selection names, one per selection the bounds allow.
SelNames == 1..MaxSelections
WeightBytes == {0, 2}

\* The working state of one expansion: mlod_verts, mlod_faces, and whether an
\* index went out of bounds (the process panics there).
TagState(v, f) == [verts |-> v, faces |-> f, panic |-> FALSE]
Panicked(st) == [st EXCEPT !.panic = TRUE]

\* v[i] = x on a Vec, i counted from 0: out of bounds panics.
SetVert(st, i, x) ==
    IF i >= Len(st.verts) THEN Panicked(st)
    ELSE [st EXCEPT !.verts = [@ EXCEPT ![i + 1] = x]]
SetFace(st, i, x) ==
    IF i >= Len(st.faces) THEN Panicked(st)
    ELSE [st EXCEPT !.faces = [@ EXCEPT ![i + 1] = x]]

\* main.rs:692-694
RECURSIVE MarkListedFaces(_, _, _)
MarkListedFaces(st, selfaces, k) ==
    IF st.panic \/ k > Len(selfaces) THEN st
    ELSE MarkListedFaces(SetFace(st, selfaces[k], 1), selfaces, k + 1)

\* main.rs:704-706, the points of one face.
MarkNoVerts(st, verts, k) == st
RECURSIVE MarkFaceVerts(_, _, _)
MarkFaceVerts(st, verts, k) ==
    IF st.panic \/ k > Len(verts) THEN st
    ELSE MarkFaceVerts(SetVert(st, verts[k], 1), verts, k + 1)

\* main.rs:698-707, the faces i, i+1, ... of a section's range up to face_to.
RECURSIVE MarkSectionRange(_, _, _)
MarkSectionRange(st, i, to) ==
    IF st.panic \/ i >= to \/ i >= Len(faces) THEN st
    ELSE MarkSectionRange(
             MarkFaceVerts(SetFace(st, i, 1), faces[i + 1].verts, 1), i + 1, to)

\* main.rs:696-708
RECURSIVE MarkListedSections(_, _, _)
MarkListedSections(st, selsections, k) ==
    IF st.panic \/ k > Len(selsections) THEN st
    ELSE IF selsections[k] >= Len(sections) THEN Panicked(st)
    ELSE LET section == sections[selsections[k] + 1]
         IN  MarkListedSections(MarkSectionRange(st, section[1], section[2]),
                                selsections, k + 1)

\* main.rs:710-712
RECURSIVE SetWeights(_, _, _, _)
SetWeights(st, selverts, weights, k) ==
    IF st.panic \/ k > Len(selverts) \/ k > Len(weights) THEN st
    ELSE SetWeights(SetVert(st, selverts[k], weights[k]), selverts, weights, k + 1)

\* main.rs:680-683
SelVertWeights(sel) ==
    IF Len(sel.weights) = 0 THEN [i \in 1..Len(sel.verts) |-> 1] ELSE sel.weights

\* main.rs:714
TagBytesNoFaces(st) == st.verts
TagBytes(st) == st.verts \o st.faces

\* main.rs:680-714, one selection: the state the expansion ends in.
ExpandWeightsFirst(sel) ==
    LET weights == SelVertWeights(sel)
        st0 == TagState([i \in 1..num_points |-> 0], [i \in 1..Len(faces) |-> 0])
    IN  IF Len(sel.verts) # Len(weights)
        THEN Panicked(st0)
        ELSE MarkListedSections(
                 MarkListedFaces(SetWeights(st0, sel.verts, weights, 1), sel.faces, 1),
                 sel.sections, 1)
ExpandSelection(sel) ==
    LET weights == SelVertWeights(sel)
        st0 == TagState([i \in 1..num_points |-> 0], [i \in 1..Len(faces) |-> 0])
    IN  IF Len(sel.verts) # Len(weights)
        THEN Panicked(st0)
        ELSE SetWeights(
                 MarkListedSections(MarkListedFaces(st0, sel.faces, 1), sel.sections, 1),
                 sel.verts, weights, 1)

\* LinkedHashMap::insert
MapInsert(m, key, val) ==
    [n \in (DOMAIN m) \cup {key} |-> IF n = key THEN val ELSE m[n]]

\* The selections a stream may hold for the LOD decoded so far; an index may
\* point one past the end of what it indexes.
SelectionEntries ==
    {[name |-> n, faces |-> f, sections |-> sc, verts |-> v, weights |-> w] :
        n \in SelNames,
        f \in SeqsUpTo(0..Len(faces), MaxListed),
        sc \in SeqsUpTo(0..Len(sections), MaxListed),
        v \in SeqsUpTo(0..num_points, MaxListed),
        w \in SeqsUpTo(WeightBytes, MaxListed)}

\* main.rs:501-548, one selection is read.
SelRead ==
    /\ pc = "selections"
    /\ Len(selections) < MaxSelections
    /\ \E sel \in SelectionEntries : selections' = Append(selections, sel)
    /\ UNCHANGED <<pc, result, num_points, selIdx, taggs>>
    /\ UNCHANGED <<rcaVars, meshVars, odolVars, strVars>>

\* main.rs:501, 550-677: all num_selections selections are read; what lies
\* between them and the expansion leaves them alone.
SelReadDone ==
    /\ pc = "selections"
    /\ pc' = "tags"
    /\ UNCHANGED <<result, selVars>>
    /\ UNCHANGED <<rcaVars, meshVars, odolVars, strVars>>

\* main.rs:679-716, one selection is expanded and its tag inserted.
SelExpand ==
    /\ pc = "tags"
    /\ selIdx < Len(selections)
    /\ LET sel == selections[selIdx + 1]
           st == ExpandSelection(sel)
       IN  IF st.panic
           THEN /\ pc' = "done"
                /\ result' = Panic("selection")
                /\ UNCHANGED <<selIdx, taggs>>
           ELSE /\ taggs' = MapInsert(taggs, sel.name, TagBytes(st))
                /\ selIdx' = selIdx + 1
                /\ UNCHANGED <<pc, result>>
    /\ UNCHANGED <<num_points, selections>>
    /\ UNCHANGED <<rcaVars, meshVars, odolVars, strVars>>

\* main.rs:679, 717: the LOD is complete.
SelFinish ==
    /\ pc = "tags"
    /\ selIdx = Len(selections)
    /\ pc' = "done"
    /\ UNCHANGED <<result, selVars>>
    /\ UNCHANGED <<rcaVars, meshVars, odolVars, strVars>>

\* The mesh of the spec's fixture: faces {1,2,3,4} and {5,6,7,8}, one section
\* (0,2).
FixtureMesh ==
    [num_points |-> 9,
     faces |-> <<NewFace(<<1, 2, 3, 4>>), NewFace(<<5, 6, 7, 8>>)>>,
     sections |-> << <<0, 2>> >>]

\* The meshes of the model: every mesh within the bounds (a vertex or a
\* section's end may lie past the declared counts), and the fixture's.
Meshes ==
    {[num_points |-> n, faces |-> [i \in 1..Len(fv) |-> NewFace(fv[i])], sections |-> sc] :
        n \in 0..MaxPoints,
        fv \in SeqsUpTo(SeqsUpTo(0..(MaxPoints - 1), MaxArity), MaxFaces),
        sc \in SeqsUpTo((0..MaxFaces) \X (0..MaxFaces), 1)}
    \cup {FixtureMesh}

\* The faces and sections are decoded, the selections are next.
InitSel ==
    /\ pc = "selections"
    /\ result = NoResult
    /\ \E m \in Meshes :
          /\ num_points = m.num_points
          /\ faces = m.faces
          /\ sections = m.sections
    /\ secTable = <<>>
    /\ selections = <<>>
    /\ selIdx = 0
    /\ taggs = <<>>
    /\ RcaIdle
    /\ OdolIdle
    /\ StrIdle

NextSel ==
    \/ SelRead
    \/ SelReadDone
    \/ SelExpand
    \/ SelFinish

SpecSel == InitSel /\ [][NextSel]_vars

----------------------------------------------------------------------------
(* Claims about the selection tags, checked under SpecSel. *)

\* The selections whose tag the map holds: expanded, and no selection
\* expanded later has the same name.
Tagged == {k \in 1..selIdx :
              \A l \in (k + 1)..selIdx : selections[l].name # selections[k].name}

\* Face f (counted from 0) lies in the range [from, to) of a section the
\* selection lists.
InListedSection(sel, f) ==
    \E k \in 1..Len(sel.sections) :
        /\ sel.sections[k] < Len(sections)
        /\ sections[sel.sections[k] + 1][1] <= f
        /\ f < sections[sel.sections[k] + 1][2]

\* Point p (counted from 0) is a vertex of face f.
PointOfFace(p, f) == \E j \in 1..Len(faces[f + 1].verts) : faces[f + 1].verts[j] = p

\* C5: the tag of a selection that lists sections only has byte 1 for exactly
\* the faces inside a listed section's range and for exactly the points those
\* faces reference, and byte 0 elsewhere; for the fixture (section 0 = (0,2),
\* faces {1,2,3,4} and {5,6,7,8}) these are faces 0, 1 and points 1..8.
C5_SectionOnlySelectionTag ==
    /\ \A k \in Tagged :
          LET sel == selections[k]
              tag == taggs[sel.name]
          IN  (Len(sel.faces) = 0 /\ Len(sel.verts) = 0)
              => /\ \A f \in 0..(Len(faces) - 1) :
                       tag[num_points + f + 1] = IF InListedSection(sel, f) THEN 1 ELSE 0
                 /\ \A p \in 0..(num_points - 1) :
                       tag[p + 1] =
                           IF \E f \in 0..(Len(faces) - 1) :
                                  InListedSection(sel, f) /\ PointOfFace(p, f)
                           THEN 1 ELSE 0
    /\ \A k \in Tagged :
          ( /\ num_points = 9
            /\ [i \in 1..Len(faces) |-> faces[i].verts] = << <<1, 2, 3, 4>>, <<5, 6, 7, 8>> >>
            /\ sections = << <<0, 2>> >>
            /\ selections[k].faces = <<>>
            /\ selections[k].verts = <<>>
            /\ selections[k].sections = <<0>> )
          => taggs[selections[k].name] = <<0, 1, 1, 1, 1, 1, 1, 1, 1, 1, 1>>

\* C5's case: the fixture's selection, listing section 0 only, has its tag.
C5_Witness ==
    /\ num_points = 9
    /\ sections = << <<0, 2>> >>
    /\ \E k \in Tagged :
          /\ selections[k].faces = <<>>
          /\ selections[k].verts = <<>>
          /\ selections[k].sections = <<0>>
          /\ taggs[selections[k].name][2] = 1

\* C6 (as claimed): every point a directly-listed face references is marked
\* (nonzero) in the selection's tag.
C6_ListedFacePointsMarked ==
    \A k \in Tagged :
        LET sel == selections[k]
        IN  \A i \in 1..Len(sel.faces) :
                \A p \in 0..(num_points - 1) :
                    PointOfFace(p, sel.faces[i]) => taggs[sel.name][p + 1] # 0

\* C7: every tag of the LOD's tag map is num_points + num_faces bytes long.
C7_TagLength ==
    \A n \in DOMAIN taggs : Len(taggs[n]) = num_points + Len(faces)

\* C7's case: a selection with a face, a section, a vertex and a weight, of a
\* LOD with points and faces, has its tag.
C7_Witness ==
    /\ num_points >= 1
    /\ Len(faces) >= 2
    /\ \E k \in Tagged :
          /\ Len(selections[k].faces) >= 1
          /\ Len(selections[k].sections) >= 1
          /\ Len(selections[k].verts) >= 1
          /\ Len(selections[k].weights) >= 1
          /\ selections[k].name \in DOMAIN taggs

\* C15: in the tag of a selection, the byte of a point the vertex array lists
\* (once) is the weight supplied for it, 1 when the weight array is empty,
\* and this also when a face of a listed section references the point: the
\* weight, 0 included, replaces the mark 1.
C15_ListedVertexWeightWins ==
    \A k \in Tagged :
        LET sel == selections[k]
            tag == taggs[sel.name]
        IN  \A j \in 1..Len(sel.verts) :
                (\A l \in 1..Len(sel.verts) : l # j => sel.verts[l] # sel.verts[j])
                    => tag[sel.verts[j] + 1] =
                           IF Len(sel.weights) = 0 THEN 1 ELSE sel.weights[j]

\* C15's case: a point listed with weight 0 is a vertex of a face inside a
\* listed section's range, and the selection has its tag.
C15_Witness ==
    \E k \in Tagged :
        LET sel == selections[k]
        IN  /\ Len(sel.verts) = 1
            /\ sel.weights = <<0>>
            /\ \E f \in 0..(Len(faces) - 1) :
                   InListedSection(sel, f) /\ PointOfFace(sel.verts[1], f)
            /\ taggs[sel.name][sel.verts[1] + 1] = 0

----------------------------------------------------------------------------
(* main and read_odol, main.rs:93-742: the decode as a run of steps, each   *)
(* ending ok, in an io::Error ("err": the stream ends early or the device   *)
(* fails) or in a panic (a failed assert_eq!, unwrap, unreachable! or index).*)
(* The selections and their tags are modelled in SpecSel, the blocks read   *)
(* through read_compressed_array in SpecRCA; here such a step only ends in  *)
(* one of the ways it can.                                                  *)

MaxLods == 2        \* LODs of a file
MaxUvs == 2         \* UVs of a LOD
MaxOdolFaces == 1   \* faces of a LOD of a decoded file
MaxOdolArity == 1   \* vertices of such a face

\* main.rs:103
SupportedVersion == 73

\* main.rs:94-351, the header.
HeaderSteps ==
    << "open",       \* main.rs:94
       "magic",      \* main.rs:96-98
       "version",    \* main.rs:100-103
       "meta",       \* main.rs:105-224
       "skeleton",   \* main.rs:226-239
       "tables",     \* main.rs:241-289
       "anims",      \* main.rs:291-346
       "offsets" >>  \* main.rs:348-353

\* main.rs:355-717, one LOD.
LodSteps ==
    << "seek",         \* main.rs:357
       "preamble",     \* main.rs:359-422
       "edges",        \* main.rs:424-430
       "faces",        \* main.rs:434-446
       "sections",     \* main.rs:450-495
       "selections",   \* main.rs:498-548
       "properties",   \* main.rs:550-554
       "frames",       \* main.rs:556-557
       "pointflags",   \* main.rs:559-572
       "uvs",          \* main.rs:576-612
       "uvsets",       \* main.rs:614-634
       "points",       \* main.rs:636-650
       "emit_points",  \* main.rs:652-662
       "emit_faces",   \* main.rs:664-677
       "emit_tags" >>  \* main.rs:679-716

\* How a step can fail besides ending ok. Every read is followed by `?`; the
\* asserts, read_cstring's unwrap, unreachable! and the indexing panic. The
\* two seeks whose result is dropped (main.rs:335, 342) are relative seeks
\* forward on the file that main.rs:245 has already sought in: they have no
\* way to fail.
StepFailures(step) ==
    CASE step \in {"open", "offsets", "seek", "edges", "faces", "sections"} -> {"err"}
      [] step \in {"emit_points"} -> {}
      [] step \in {"emit_faces", "emit_tags"} -> {"panic"}
      [] OTHER -> {"err", "panic"}

IndexOf(seq, x) == CHOOSE i \in 1..Len(seq) : seq[i] = x

\* The step after `step` of LOD k (-1: the header): <<step, LOD>>.
StepAfter(step, k) ==
    IF k = -1 /\ IndexOf(HeaderSteps, step) < Len(HeaderSteps)
    THEN <<HeaderSteps[IndexOf(HeaderSteps, step) + 1], -1>>
    ELSE IF k >= 0 /\ IndexOf(LodSteps, step) < Len(LodSteps)
    THEN <<LodSteps[IndexOf(LodSteps, step) + 1], k>>
    ELSE IF k + 1 < num_lods
    THEN <<LodSteps[1], k + 1>>
    ELSE <<"return", k>>

\* Whether a step that ended `out` leaves read_odol: `?` returns the error,
\* a panic unwinds.
PropagatePanicsOnly(out) == out = "panic"
Propagate(out) == out # "ok"

\* A step of read_odol has ended `out`: the step is recorded and read_odol
\* goes on, returns the error to main or panics.
Advance(step, out) ==
    /\ trace' = Append(trace, [lod |-> lod, step |-> step, out |-> out])
    /\ IF Propagate(out)
       THEN /\ pc' = IF out = "err" THEN "main" ELSE "aborted"
            /\ result' = IF out = "err" THEN Err("Io") ELSE Panic(step)
            /\ lod' = lod
       ELSE /\ pc' = StepAfter(step, lod)[1]
            /\ lod' = StepAfter(step, lod)[2]
            /\ UNCHANGED result

\* main.rs:117-125, a LOD as the header creates it: the number of its faces
\* (their vertices are not followed) and whether its iteration has ended.
NewLod == [faces |-> 0, complete |-> FALSE]

\* main.rs:96-98
OdolMagic ==
    /\ pc = "magic"
    /\ \E buffer \in {"ODOL", "MLOD", "eof"} :
          Advance("magic", IF buffer = "eof" THEN "err"
                           ELSE IF buffer # "ODOL" THEN "panic" ELSE "ok")
    /\ UNCHANGED <<arg_output, num_lods, lods, num_uvs, outFile>>
    /\ UNCHANGED <<rcaVars, meshVars, selVars, strVars>>

\* main.rs:100-103
OdolVersion ==
    /\ pc = "version"
    /\ \E version \in {SupportedVersion, SupportedVersion + 1, -1} :
          Advance("version", IF version = -1 THEN "err"
                             ELSE IF version # SupportedVersion THEN "panic" ELSE "ok")
    /\ UNCHANGED <<arg_output, num_lods, lods, num_uvs, outFile>>
    /\ UNCHANGED <<rcaVars, meshVars, selVars, strVars>>

\* main.rs:105-224, with num_lods and the LODs created at main.rs:111-129.
OdolMeta ==
    /\ pc = "meta"
    /\ \E out \in {"ok"} \cup StepFailures("meta"), n \in 0..MaxLods :
          /\ Advance("meta", out)
          /\ IF out = "ok"
             THEN num_lods' = n /\ lods' = [i \in 1..n |-> NewLod]
             ELSE n = 0 /\ UNCHANGED <<num_lods, lods>>
    /\ UNCHANGED <<arg_output, num_uvs, outFile>>
    /\ UNCHANGED <<rcaVars, meshVars, selVars, strVars>>

\* A step of the header or of a LOD whose data the model does not follow.
OdolStep ==
    /\ pc \in {"open", "skeleton", "tables", "anims", "offsets", "seek", "preamble",
               "edges", "sections", "selections", "properties", "pointflags",
               "uvsets", "points", "emit_points"}
    /\ \E out \in {"ok"} \cup StepFailures(pc) : Advance(pc, out)
    /\ UNCHANGED <<arg_output, num_lods, lods, num_uvs, outFile>>
    /\ UNCHANGED <<rcaVars, meshVars, selVars, strVars>>

\* main.rs:679-717, the tags (in detail: SpecSel) end the LOD's iteration:
\* its faces and UVs go out of scope.
OdolEmitTags ==
    /\ pc = "emit_tags"
    /\ \/ /\ Advance("emit_tags", "panic")
          /\ UNCHANGED <<lods, faces, num_uvs>>
       \/ /\ Advance("emit_tags", "ok")
          /\ lods' = [lods EXCEPT ![lod + 1].complete = TRUE]
          /\ faces' = <<>>
          /\ num_uvs' = 0
    /\ UNCHANGED <<sections, secTable>>
    /\ UNCHANGED <<arg_output, num_lods, outFile>>
    /\ UNCHANGED <<rcaVars, selVars, strVars>>

\* main.rs:434-446
OdolFaces ==
    /\ pc = "faces"
    /\ \/ /\ Advance("faces", "err")
          /\ UNCHANGED faces
       \/ /\ Advance("faces", "ok")
          /\ \E fv \in SeqsUpTo(SeqsUpTo(0..(MaxUvs - 1), MaxOdolArity), MaxOdolFaces) :
                faces' = [i \in 1..Len(fv) |-> NewFace(fv[i])]
    /\ UNCHANGED <<sections, secTable>>
    /\ UNCHANGED <<arg_output, num_lods, lods, num_uvs, outFile>>
    /\ UNCHANGED <<rcaVars, selVars, strVars>>

\* main.rs:556-557
OdolFrames ==
    /\ pc = "frames"
    /\ \E num_frames \in {0, 1, -1} :
          Advance("frames", IF num_frames = -1 THEN "err"
                            ELSE IF num_frames # 0 THEN "panic" ELSE "ok")
    /\ UNCHANGED <<arg_output, num_lods, lods, num_uvs, outFile>>
    /\ UNCHANGED <<rcaVars, meshVars, selVars, strVars>>

\* main.rs:576-612
OdolUvs ==
    /\ pc = "uvs"
    /\ \E out \in {"ok"} \cup StepFailures("uvs"), n \in 0..MaxUvs :
          /\ Advance("uvs", out)
          /\ IF out = "ok" THEN num_uvs' = n ELSE n = 0 /\ UNCHANGED num_uvs
    /\ UNCHANGED <<arg_output, num_lods, lods, outFile>>
    /\ UNCHANGED <<rcaVars, meshVars, selVars, strVars>>

\* main.rs:668, uvs[*i as usize] panics out of bounds.
UvIndexPanics == \E f \in 1..Len(faces) : \E j \in 1..Len(faces[f].verts) :
                     faces[f].verts[j] >= num_uvs

\* main.rs:664-677
OdolEmitFaces ==
    /\ pc = "emit_faces"
    /\ IF UvIndexPanics
       THEN Advance("emit_faces", "panic") /\ UNCHANGED lods
       ELSE /\ Advance("emit_faces", "ok")
            /\ lods' = [lods EXCEPT ![lod + 1].faces = Len(faces)]
    /\ UNCHANGED <<arg_output, num_lods, num_uvs, outFile>>
    /\ UNCHANGED <<rcaVars, meshVars, selVars, strVars>>

\* main.rs:719-722
OdolReturn ==
    /\ pc = "return"
    /\ pc' = "main"
    /\ result' = [kind |-> "Ok", err |-> "", src |-> "mesh", raw |-> lods]
    /\ UNCHANGED odolVars
    /\ UNCHANGED <<rcaVars, meshVars, selVars, strVars>>

\* main.rs:737, expect on an Err.
MainExpectPanics ==
    /\ pc = "main"
    /\ result.kind = "Err"
    /\ pc' = "aborted"
    /\ UNCHANGED <<result, odolVars>>
    /\ UNCHANGED <<rcaVars, meshVars, selVars, strVars>>

\* main.rs:737-742, the mesh is written when an output path was given.
MainOutput ==
    /\ pc = "main"
    /\ result.kind = "Ok"
    /\ IF arg_output
       THEN \E o \in {"absent", "created", "written"} :
               /\ outFile' = o
               /\ pc' = IF o = "written" THEN "exit" ELSE "aborted"
       ELSE pc' = "exit" /\ UNCHANGED outFile
    /\ UNCHANGED <<result, arg_output, num_lods, lods, lod, num_uvs, trace>>
    /\ UNCHANGED <<rcaVars, meshVars, selVars, strVars>>

InitOdol ==
    /\ pc = "open"
    /\ result = NoResult
    /\ arg_output \in BOOLEAN
    /\ num_lods = 0
    /\ lods = <<>>
    /\ lod = -1
    /\ num_uvs = 0
    /\ trace = <<>>
    /\ outFile = "absent"
    /\ MeshIdle
    /\ RcaIdle
    /\ StrIdle

NextOdol ==
    \/ OdolMagic
    \/ OdolVersion
    \/ OdolMeta
    \/ OdolStep
    \/ OdolFaces
    \/ OdolFrames
    \/ OdolUvs
    \/ OdolEmitFaces
    \/ OdolEmitTags
    \/ OdolReturn
    \/ MainExpectPanics
    \/ MainOutput

SpecOdol == InitOdol /\ [][NextOdol]_vars

----------------------------------------------------------------------------
(* Claims about the decode as a whole, checked under SpecOdol. *)

LastStep == trace[Len(trace)]

\* C8 (as claimed): bad magic bytes, an unsupported version and a nonzero
\* frame count each end the decode in an error of its own kind (BadMagic,
\* UnsupportedVersion, StructuralAssertionFailed), returned like an I/O error
\* and told apart from it and from each other by the kind.
C8_DistinctErrorKinds ==
    (Len(trace) > 0 /\ LastStep.out \notin {"ok", "err"})
        => /\ LastStep.step = "magic" => result = Err("BadMagic")
           /\ LastStep.step = "version" => result = Err("UnsupportedVersion")
           /\ LastStep.step = "frames" => result = Err("StructuralAssertionFailed")

\* The steps of a decode of n LODs in which nothing fails.
HeaderTrace ==
    [i \in 1..Len(HeaderSteps) |-> [lod |-> -1, step |-> HeaderSteps[i], out |-> "ok"]]
LodTrace(k) ==
    [i \in 1..Len(LodSteps) |-> [lod |-> k, step |-> LodSteps[i], out |-> "ok"]]
RECURSIVE FullTrace(_)
FullTrace(n) == IF n = 0 THEN HeaderTrace ELSE FullTrace(n - 1) \o LodTrace(n - 1)

C10_UvIndexErrorRecoverable ==
    (Len(trace) > 0 /\ LastStep.step = "emit_faces" /\ UvIndexPanics)
        => /\ result = Err("VertexIndexOutOfRange")
           /\ pc # "aborted"

----------------------------------------------------------------------------
(* read_cstring, io.rs:9-22: the bytes of the stream are taken one by one   *)
(* until a zero byte; the bytes before it are the string.                   *)

MaxStr == 4   \* bytes of the stream read_cstring reads from

\* The bytes of such a stream: the terminator, a letter, and a byte that no
\* UTF-8 text holds.
StrBytes == {0, 65, 255}

\* String::from_utf8 on bytes of StrBytes: a byte above 127 stands alone and
\* is no UTF-8 sequence.
Utf8(bs) == \A i \in 1..Len(bs) : bs[i] <= 127

OkString(bs) == [kind |-> "Ok", err |-> "", src |-> "cstring", raw |-> bs]

\* io.rs:21, Ok(String::from_utf8(bytes).unwrap())
FromUtf8Unwrap(bs) == IF Utf8(bs) THEN OkString(bs) ELSE Panic("utf8")

\* io.rs:11-12, 15-17: the iterator yields a byte that is not zero.
CstrPush ==
    /\ pc = "cstring"
    /\ pos < Len(file)
    /\ file[pos + 1] # 0
    /\ bytes' = Append(bytes, file[pos + 1])
    /\ pos' = pos + 1
    /\ UNCHANGED <<pc, result>>
    /\ UNCHANGED <<file, entry, output_size, comp_type, valid, trueLen,
                   fp, size_small, size_large, size, attempts>>
    /\ UNCHANGED <<meshVars, selVars, odolVars>>

\* io.rs:11-14, 21: the iterator yields the zero byte, the loop breaks.
CstrTerminator ==
    /\ pc = "cstring"
    /\ pos < Len(file)
    /\ file[pos + 1] = 0
    /\ pos' = pos + 1
    /\ pc' = "done"
    /\ result' = FromUtf8Unwrap(bytes)
    /\ UNCHANGED bytes
    /\ UNCHANGED <<file, entry, output_size, comp_type, valid, trueLen,
                   fp, size_small, size_large, size, attempts>>
    /\ UNCHANGED <<meshVars, selVars, odolVars>>

\* io.rs:11, 21: at the end of the stream Bytes::next returns None and the
\* for loop ends as it does after a break.
CstrEof ==
    /\ pc = "cstring"
    /\ pos = Len(file)
    /\ pc' = "done"
    /\ result' = FromUtf8Unwrap(bytes)
    /\ UNCHANGED bytes
    /\ UNCHANGED rcaVars
    /\ UNCHANGED <<meshVars, selVars, odolVars>>

\* io.rs:12, the iterator yields an io::Error (the device fails) and `?`
\* returns it.
CstrIoError ==
    /\ pc = "cstring"
    /\ pc' = "done"
    /\ result' = Err("Io")
    /\ UNCHANGED bytes
    /\ UNCHANGED rcaVars
    /\ UNCHANGED <<meshVars, selVars, odolVars>>

\* read_cstring is called with the stream at any place of a file.
InitStr ==
    /\ pc = "cstring"
    /\ result = NoResult
    /\ file \in SeqsUpTo(StrBytes, MaxStr)
    /\ entry \in 0..Len(file)
    /\ pos = entry
    /\ bytes = <<>>
    /\ output_size = 0
    /\ comp_type = -1
    /\ valid = FALSE
    /\ trueLen = 0
    /\ fp = 0
    /\ size_small = 0
    /\ size_large = 0
    /\ size = 0
    /\ attempts = 0
    /\ MeshIdle
    /\ OdolIdle

NextStr ==
    \/ CstrPush
    \/ CstrTerminator
    \/ CstrEof
    \/ CstrIoError

SpecStr == InitStr /\ [][NextStr]_vars

----------------------------------------------------------------------------
(* Claims about read_cstring, checked under SpecStr. *)

\* The stream ended with no zero byte at or after the place the call began.
EofBeforeTerminator ==
    /\ pos = Len(file)
    /\ \A i \in (entry + 1)..Len(file) : file[i] # 0

\* C11 (as claimed): a read_cstring call that meets the end of the stream
\* before any zero byte (the device not failing) fails with the error
\* Truncated; the bytes accumulated so far are not returned as a string.
C11_EofBeforeTerminatorIsTruncated ==
    (pc = "done" /\ EofBeforeTerminator /\ result.err # "Io")
        => result = Err("Truncated")

====
